---- MODULE Spec2Model ----
(***************************************************************************)
(* Model of lib/ansible/modules/monitoring/zabbix/zabbix_action.py: the    *)
(* Action class (action_exists, add_action, delete_action, update_action,  *)
(* compile_interface_params) and the dispatch at the end of main().        *)
(*                                                                         *)
(* Python values are tagged tuples so that 1 and "1" are different values: *)
(*   <<"int", n>>   an int          <<"str", s>>   a str                   *)
(*   <<"list", q>>  a list          <<"dict", f>>  a dict held as a value  *)
(*   <<"none">>     None                                                   *)
(* and a dict the code indexes directly is a function over its keys.       *)
(*                                                                         *)
(* Login and action.get are taken to return; create, update and delete     *)
(* either return or raise.  The server keeps what it is sent.              *)
(***************************************************************************)
EXTENDS Integers, Sequences, FiniteSets, TLC

\* ---------------------------------------------------------------- bounds
MaxRuns == 2          \* invocations of the module against the same server
MaxEventsource == 1   \* eventsource values 0..MaxEventsource
MaxOps == 1           \* longest operations list

\* ---------------------------------------------------------- Python values
IntV(n) == <<"int", n>>
StrV(s) == <<"str", s>>
ListV(q) == <<"list", q>>
DictV(f) == <<"dict", f>>
NoneV == <<"none">>

\* bool(v) as Python evaluates `if v:`
PyTruthy(v) ==
    CASE v[1] = "int" -> v[2] # 0
      [] v[1] = "str" -> v[2] # ""
      [] v[1] = "list" -> Len(v[2]) > 0
      [] v[1] = "dict" -> DOMAIN v[2] # {}
      [] v[1] = "none" -> FALSE

\* str(v)
PyStr(v) ==
    CASE v[1] = "int" -> StrV(ToString(v[2]))
      [] v[1] = "str" -> v

\* ------------------------------------------------------- module parameters
ActionName == "Exampleaction"
StatusChoices == {"active", "passive"}
StateChoices == {"present", "absent"}
EscPeriods == {"2m", "5m"}
Eventsources == 0..MaxEventsource
OperationLists == UNION {[1..n -> {"op1"}] : n \in 0..MaxOps}

Params ==
    [status : StatusChoices, state : StateChoices, esc_period : EscPeriods,
     eventsource : Eventsources, operations : OperationLists]

\* main(): status = 6 if status == "passive" else 5
StatusCode(status) == IF status = "passive" THEN 6 ELSE 5

DataKeys == {"name", "status", "esc_period", "eventsource", "operations"}

\* main(): the dict handed to update_action / add_action
MainData(p) ==
    [k \in DataKeys |->
        CASE k = "name" -> StrV(ActionName)
          [] k = "status" -> StrV(ToString(StatusCode(p.status)))
          [] k = "esc_period" -> StrV(p.esc_period)
          [] k = "eventsource" -> IntV(p.eventsource)
          [] k = "operations" -> ListV(p.operations)]

\* ------------------------------------------------------------ remote server
\* The actions the server holds under ActionName, as action.get returns them.
ExistingId == StrV("10")
CreatedId == StrV("11")

RemoteEventsources == {IntV(1), StrV("1")}

\* a stored action: name, status, esc_period and operations always, the
\* identifier and eventsource optionally
RemoteEntities ==
    { [k \in ({"name", "status", "esc_period", "operations"} \cup ks) |->
          CASE k = "name" -> StrV(ActionName)
            [] k = "status" -> StrV(st)
            [] k = "esc_period" -> StrV(ep)
            [] k = "operations" -> ListV(<<"op1">>)
            [] k = "actionid" -> ExistingId
            [] k = "eventsource" -> es] :
        ks \in SUBSET {"actionid", "eventsource"},
        st \in {"5", "6"}, ep \in EscPeriods, es \in RemoteEventsources }

RemoteErrors == {"rejected", "timeout"}
Replies == {"ok"} \cup RemoteErrors

\* dict.update: d overlaid with u
Overlay(d, u) ==
    [k \in (DOMAIN d) \cup (DOMAIN u) |-> IF k \in DOMAIN u THEN u[k] ELSE d[k]]

\* the server stores what action.create was sent and assigns an identifier
RemoteCreate(rem, parameters) ==
    Append(rem, Overlay(parameters, [k \in {"actionid"} |-> CreatedId]))

\* the server overlays what action.update was sent on the action so identified
RemoteUpdate(rem, parameters) ==
    [i \in 1..Len(rem) |->
        IF "actionid" \in DOMAIN rem[i] /\ rem[i]["actionid"] = parameters["actionid"]
        THEN Overlay(rem[i], parameters) ELSE rem[i]]

RECURSIVE RemoteDelete(_, _)
\* the server drops the action whose identifier action.delete was sent
RemoteDelete(rem, id) ==
    IF rem = <<>> THEN <<>>
    ELSE IF "actionid" \in DOMAIN Head(rem) /\ Head(rem)["actionid"] = id
         THEN RemoteDelete(Tail(rem), id)
         ELSE <<Head(rem)>> \o RemoteDelete(Tail(rem), id)

\* ------------------------------------------------------------ class Action
\* action_exists with `return result` on both paths
ActionExistsReturn_WholeResult(result) == ListV(result)

\* Action.action_exists: what it returns, given the list action.get returned
ActionExistsReturn(result) ==
    IF Len(result) > 0 /\ "actionid" \in DOMAIN result[1]
    THEN result[1]["actionid"]
    ELSE ListV(result)

\* Action.action_exists: self.existing_data afterwards (<<>> is None, <<d>> is d)
ActionExistsData(result, before) ==
    IF Len(result) > 0 /\ "actionid" \in DOMAIN result[1]
    THEN <<result[1]>>
    ELSE before

\* Action.add_action: parameters = the truthy items of data
AddParameters(data) ==
    [k \in {i \in DOMAIN data : PyTruthy(data[i])} |-> data[k]]

\* compile_interface_params without the str() coercion
CompileInterfaceParams_NoStr(existing, new_interface) ==
    LET old_interface ==
            IF "interface" \in DOMAIN existing /\ Cardinality(DOMAIN existing["interface"][2]) > 0
            THEN existing["interface"][2]
            ELSE << >>
        final_interface == Overlay(old_interface, new_interface)
    IN  IF final_interface # old_interface THEN final_interface ELSE << >>

\* Action.compile_interface_params; existing is self.existing_data (a dict)
CompileInterfaceParams(existing, new_interface) ==
    LET old_interface ==
            IF "interface" \in DOMAIN existing /\ Cardinality(DOMAIN existing["interface"][2]) > 0
            THEN existing["interface"][2]
            ELSE << >>
        updated == Overlay(old_interface, new_interface)
        final_interface == [k \in DOMAIN updated |-> PyStr(updated[k])]
    IN  IF final_interface # old_interface THEN final_interface ELSE << >>

\* the generic diff without the `data[item] and` test
DiffItem_NoTruthy(data, existing, item) ==
    /\ item \in DOMAIN existing
    /\ existing[item] # data[item]

\* Action.update_action: the generic diff keeps an item of data when its value
\* is truthy, the existing record has the key and the two values differ
DiffItem(data, existing, item) ==
    /\ PyTruthy(data[item])
    /\ item \in DOMAIN existing
    /\ existing[item] # data[item]

\* Action.update_action: `item in self.existing_data` raises TypeError when
\* existing_data is None and some item of data is truthy
UpdateRaises(data, existing_data) ==
    /\ existing_data = <<>>
    /\ \E item \in DOMAIN data : PyTruthy(data[item])

\* Action.update_action: parameters as handed to action.update
UpdateParameters(id, data, existing) ==
    LET generic == {item \in DOMAIN data : DiffItem(data, existing, item)} \ {"interface"}
        new_interface ==
            IF "interface" \in DOMAIN data /\ data["status"] = StrV("6")
            THEN CompileInterfaceParams(existing, data["interface"][2])
            ELSE << >>
        keys == {"actionid"} \cup generic
                    \cup (IF DOMAIN new_interface # {} THEN {"interface"} ELSE {})
    IN  [k \in keys |->
            CASE k = "actionid" -> id
              [] k = "interface" -> DictV(new_interface)
              [] OTHER -> data[k]]

\* module.exit_json / module.fail_json / an exception nobody catches
ExitJson(changed, result) == [kind |-> "exit_json", changed |-> changed, msg |-> result]
FailJson(msg) == [kind |-> "fail_json", changed |-> FALSE, msg |-> msg]
Traceback(exc) == [kind |-> "traceback", changed |-> FALSE, msg |-> exc]
Running == [kind |-> "running", changed |-> FALSE, msg |-> << >>]

\* update_action's messages read data['host']: a KeyError when data has no
\* such key, raised inside the try block or inside its handler, so that
\* nothing catches the second one
UpdatedOutcome(data, id) ==
    IF "host" \in DOMAIN data
    THEN ExitJson(TRUE, <<"Successfully updated action", data["host"][2], id[2]>>)
    ELSE Traceback(<<"KeyError", "host">>)

UpdateFailedOutcome(data, e) ==
    IF "host" \in DOMAIN data
    THEN FailJson(<<"Failed to update action", data["host"][2], e>>)
    ELSE Traceback(<<"KeyError", "host">>)

\* ------------------------------------------------------------------- state
VARIABLES
    params,         \* module.params: the desired descriptor
    check_mode,     \* module.check_mode
    remote,         \* the server's actions named ActionName
    pc,             \* where main() is: "main", "dispatch", "done"
    existing_data,  \* Action.existing_data: <<>> is None
    action_id,      \* main()'s action_id
    calls,          \* the create/update/delete calls this invocation issued
    outcome,        \* how the invocation ended
    branch,         \* the branch of main() this invocation took
    history,        \* the invocations that ended before this one
    unit            \* a direct call of compile_interface_params

vars == <<params, check_mode, remote, pc, existing_data, action_id, calls,
          outcome, branch, history, unit>>

data == MainData(params)
NoUnit == [called |-> FALSE, new_interface |-> << >>, ret |-> << >>]

InitialRemotes == {<< >>} \cup {<<e>> : e \in RemoteEntities}

\* main() up to `action = Action(module, zbx)`
Init ==
    /\ params \in Params
    /\ check_mode \in BOOLEAN
    /\ remote \in InitialRemotes
    /\ pc = "main"
    /\ existing_data = << >>
    /\ action_id = NoneV
    /\ calls = << >>
    /\ outcome = Running
    /\ branch = "none"
    /\ history = << >>
    /\ unit = NoUnit

Call(op, arg, reply) == [op |-> op, arg |-> arg, reply |-> reply]

\* main(): action_id = action.action_exists(action_name)
ActionExists ==
    /\ pc = "main"
    /\ action_id' = ActionExistsReturn(remote)
    /\ existing_data' = ActionExistsData(remote, existing_data)
    /\ pc' = "dispatch"
    /\ UNCHANGED <<params, check_mode, remote, calls, outcome, branch, history, unit>>

\* delete_action without the check_mode test
DeleteAction_IgnoresCheckMode ==
    /\ pc = "dispatch"
    /\ PyTruthy(action_id)
    /\ params.state = "absent"
    /\ pc' = "done"
    /\ branch' = "delete"
    /\ \E reply \in Replies :
         /\ calls' = Append(calls, Call("delete", <<action_id>>, reply))
         /\ IF reply = "ok"
            THEN /\ remote' = RemoteDelete(remote, action_id)
                 /\ outcome' = ExitJson(TRUE, <<"Successfully deleted action", ActionName>>)
            ELSE /\ remote' = remote
                 /\ outcome' = FailJson(<<"Failed to delete action", ActionName, reply>>)
    /\ UNCHANGED <<params, check_mode, existing_data, action_id, history, unit>>

\* main(): `if action_id:` / `if state == "absent":` -> Action.delete_action
DeleteAction ==
    /\ pc = "dispatch"
    /\ PyTruthy(action_id)
    /\ params.state = "absent"
    /\ pc' = "done"
    /\ branch' = "delete"
    /\ IF check_mode
       THEN /\ outcome' = ExitJson(TRUE, << >>)
            /\ UNCHANGED <<remote, calls>>
       ELSE \E reply \in Replies :
            /\ calls' = Append(calls, Call("delete", <<action_id>>, reply))
            /\ IF reply = "ok"
               THEN /\ remote' = RemoteDelete(remote, action_id)
                    /\ outcome' = ExitJson(TRUE, <<"Successfully deleted action", ActionName>>)
               ELSE /\ remote' = remote
                    /\ outcome' = FailJson(<<"Failed to delete action", ActionName, reply>>)
    /\ UNCHANGED <<params, check_mode, existing_data, action_id, history, unit>>

\* main(): `if action_id:` / else -> Action.update_action
UpdateAction ==
    /\ pc = "dispatch"
    /\ PyTruthy(action_id)
    /\ params.state # "absent"
    /\ pc' = "done"
    /\ branch' = "update"
    /\ IF check_mode
       THEN /\ outcome' = ExitJson(TRUE, << >>)
            /\ UNCHANGED <<remote, calls>>
       ELSE IF UpdateRaises(data, existing_data)
       THEN /\ outcome' = UpdateFailedOutcome(data, "TypeError")
            /\ UNCHANGED <<remote, calls>>
       ELSE LET parameters == UpdateParameters(action_id, data, existing_data[1])
            IN  IF Cardinality(DOMAIN parameters) > 1
                THEN \E reply \in Replies :
                     /\ calls' = Append(calls, Call("update", parameters, reply))
                     /\ IF reply = "ok"
                        THEN /\ remote' = RemoteUpdate(remote, parameters)
                             /\ outcome' = UpdatedOutcome(data, action_id)
                        ELSE /\ remote' = remote
                             /\ outcome' = UpdateFailedOutcome(data, reply)
                ELSE /\ outcome' = ExitJson(FALSE, << >>)
                     /\ UNCHANGED <<remote, calls>>
    /\ UNCHANGED <<params, check_mode, existing_data, action_id, history, unit>>

\* main(): else / `if state == "absent": module.exit_json(changed=False)`
AlreadyDeleted ==
    /\ pc = "dispatch"
    /\ ~PyTruthy(action_id)
    /\ params.state = "absent"
    /\ pc' = "done"
    /\ branch' = "noop"
    /\ outcome' = ExitJson(FALSE, << >>)
    /\ UNCHANGED <<params, check_mode, remote, existing_data, action_id, calls,
                   history, unit>>

\* add_action calling action.create a second time when the first call raises
AddAction_Retry ==
    /\ pc = "dispatch"
    /\ ~PyTruthy(action_id)
    /\ params.state # "absent"
    /\ pc' = "done"
    /\ branch' = "create"
    /\ IF check_mode
       THEN /\ outcome' = ExitJson(TRUE, << >>)
            /\ UNCHANGED <<remote, calls>>
       ELSE LET parameters == AddParameters(data)
            IN  \E reply \in Replies :
                IF reply = "ok"
                THEN /\ calls' = Append(calls, Call("create", parameters, reply))
                     /\ remote' = RemoteCreate(remote, parameters)
                     /\ outcome' = ExitJson(TRUE, <<"Successfully added action",
                                                    data["name"][2], data["status"][2]>>)
                ELSE /\ calls' = calls \o <<Call("create", parameters, reply),
                                             Call("create", parameters, reply)>>
                     /\ remote' = remote
                     /\ outcome' = FailJson(<<"Failed to create action",
                                              data["name"][2], reply>>)
    /\ UNCHANGED <<params, check_mode, existing_data, action_id, history, unit>>

\* main(): else -> Action.add_action
AddAction ==
    /\ pc = "dispatch"
    /\ ~PyTruthy(action_id)
    /\ params.state # "absent"
    /\ pc' = "done"
    /\ branch' = "create"
    /\ IF check_mode
       THEN /\ outcome' = ExitJson(TRUE, << >>)
            /\ UNCHANGED <<remote, calls>>
       ELSE LET parameters == AddParameters(data)
            IN  \E reply \in Replies :
                /\ calls' = Append(calls, Call("create", parameters, reply))
                /\ IF reply = "ok"
                   THEN /\ remote' = RemoteCreate(remote, parameters)
                        /\ outcome' = ExitJson(TRUE, <<"Successfully added action",
                                                       data["name"][2], data["status"][2]>>)
                   ELSE /\ remote' = remote
                        /\ outcome' = FailJson(<<"Failed to create action",
                                                 data["name"][2], reply>>)
    /\ UNCHANGED <<params, check_mode, existing_data, action_id, history, unit>>

\* the module is run again with the same descriptor against the server as the
\* last run left it: a fresh process, a fresh Action object
Reinvoke ==
    /\ pc = "done"
    /\ Len(history) + 1 < MaxRuns
    /\ history' = Append(history, [check_mode |-> check_mode, calls |-> calls,
                                   outcome |-> outcome, branch |-> branch])
    /\ check_mode' \in BOOLEAN
    /\ pc' = "main"
    /\ existing_data' = << >>
    /\ action_id' = NoneV
    /\ calls' = << >>
    /\ outcome' = Running
    /\ branch' = "none"
    /\ UNCHANGED <<params, remote, unit>>

Next ==
    \/ ActionExists
    \/ DeleteAction
    \/ UpdateAction
    \/ AlreadyDeleted
    \/ AddAction
    \/ Reinvoke

Spec == Init /\ [][Next]_vars

\* ------------------------------------- compile_interface_params, called directly
\* main() never puts an `interface` key in data, so the merge is exercised by
\* calling the method on an Action whose existing_data is already fetched.
InterfaceKeys == {"a", "b"}
InterfaceValues == {IntV(1), StrV("1"), StrV("2")}
InterfaceMaps == UNION {[ks -> InterfaceValues] : ks \in SUBSET InterfaceKeys}

UnitEntity == [k \in {"actionid", "name"} |->
                  IF k = "actionid" THEN ExistingId ELSE StrV(ActionName)]
UnitExisting ==
    {UnitEntity} \cup
    {Overlay(UnitEntity, [k \in {"interface"} |-> DictV(m)]) : m \in InterfaceMaps}

InitUnit ==
    /\ params \in {p \in Params : p.status = "passive" /\ p.state = "present"
                                  /\ p.esc_period = "2m" /\ p.eventsource = 1
                                  /\ p.operations = << >>}
    /\ check_mode = FALSE
    /\ remote = << >>
    /\ pc = "unit"
    /\ existing_data \in {<<e>> : e \in UnitExisting}
    /\ action_id = ExistingId
    /\ calls = << >>
    /\ outcome = Running
    /\ branch = "none"
    /\ history = << >>
    /\ unit = NoUnit

\* new_interface = self.compile_interface_params(data['interface'])
CompileInterfaceParamsCall ==
    /\ pc = "unit"
    /\ \E new_interface \in InterfaceMaps :
         unit' = [called |-> TRUE, new_interface |-> new_interface,
                  ret |-> CompileInterfaceParams(existing_data[1], new_interface)]
    /\ UNCHANGED <<params, check_mode, remote, pc, existing_data, action_id,
                   calls, outcome, branch, history>>

NextUnit == CompileInterfaceParamsCall

SpecUnit == InitUnit /\ [][NextUnit]_vars

\* ------------------------------------------------------------------ claims
\* the lookup took result[0] as the existing record
Found == existing_data # << >>
\* the lookup got an empty list back
EmptyLookup == existing_data = << >> /\ action_id[1] = "list" /\ Len(action_id[2]) = 0

\* the fields of the descriptor whose desired value is truthy, that the fetched
\* record has, and whose two values differ
Differing ==
    {k \in DataKeys : /\ PyTruthy(data[k])
                      /\ k \in DOMAIN existing_data[1]
                      /\ existing_data[1][k] # data[k]}

\* what the decision logic of the specification says a run would do
WouldChange ==
    IF Found THEN params.state = "absent" \/ Differing # {}
    ELSE params.state = "present"

\* C1 (as claimed): a dry-run invocation reports changed exactly when the same
\* invocation without dry-run would mutate the server; in particular it
\* reports unchanged when the action is found, is wanted present and no
\* diffed field differs.  Stated for lookups that are an empty list or a
\* record with an identifier.
C1_DryRunParity ==
    (pc = "done" /\ check_mode /\ (Found \/ EmptyLookup))
        => (outcome.kind = "exit_json" /\ outcome.changed = WouldChange)

\* C2 (as claimed): found, wanted present, dry-run unset and some field to
\* update: the update call is issued with the payload and, when it succeeds,
\* the invocation ends with exit_json(changed=True).
C2_UpdateReportsChanged ==
    (pc = "done" /\ Found /\ params.state = "present" /\ ~check_mode /\ Differing # {})
        => /\ Len(calls) = 1
           /\ calls[1].op = "update"
           /\ calls[1].reply = "ok"
                => (outcome.kind = "exit_json" /\ outcome.changed)

\* C3 (as claimed): a second run with the same descriptor, both runs without
\* dry-run and the first run's remote calls succeeding, issues no call and
\* reports unchanged.
C3_Idempotence ==
    (/\ pc = "done"
     /\ Len(history) >= 1
     /\ ~check_mode
     /\ ~history[Len(history)].check_mode
     /\ \A i \in 1..Len(history[Len(history)].calls) :
            history[Len(history)].calls[i].reply = "ok")
        => (calls = << >> /\ outcome.kind = "exit_json" /\ ~outcome.changed)

\* C4 (as claimed): when the create, update or delete call raises, the
\* invocation ends with fail_json and a message that names the action and
\* carries the error text, and no further call is made.
C4_RemoteFailureReported ==
    (pc = "done" /\ calls # << >> /\ calls[1].reply # "ok")
        => /\ Len(calls) = 1
           /\ outcome.kind = "fail_json"
           /\ Len(outcome.msg) = 3
           /\ outcome.msg[2] = ActionName
           /\ outcome.msg[3] = calls[1].reply

\* C5: during an invocation with check_mode set no step issues a create,
\* update or delete call and no step changes the server's state.
C5_DryRunNonMutation ==
    [][check_mode => (remote' = remote /\ calls' = << >>)]_vars

C5_Witness ==
    /\ pc = "done" /\ check_mode /\ Found
    /\ params.state = "absent" /\ outcome.changed /\ remote # << >>

\* C6: found, wanted absent, dry-run unset: exactly one call is issued, it is
\* delete, and its argument is the list holding the fetched identifier,
\* whatever status, esc_period, eventsource and operations are.
C6_DeletionOnAbsent ==
    (pc = "done" /\ Found /\ params.state = "absent" /\ ~check_mode)
        => /\ Len(calls) = 1
           /\ calls[1].op = "delete"
           /\ calls[1].arg = <<existing_data[1]["actionid"]>>

C6_Witness ==
    /\ pc = "done" /\ Found /\ params.state = "absent" /\ ~check_mode
    /\ calls # << >> /\ calls[1].reply = "ok" /\ remote = << >>
    /\ params.status = "passive" /\ existing_data[1]["status"] = StrV("5")

\* C7 (as claimed): unless the result list is non-empty and its first element
\* has an identifier, main() takes the create branch (wanted present) or the
\* no-op branch (wanted absent), never update or delete.
C7_NotFoundDispatch ==
    (pc = "done" /\ ~Found)
        => branch = (IF params.state = "present" THEN "create" ELSE "noop")

OldInterface ==
    IF "interface" \in DOMAIN existing_data[1] THEN existing_data[1]["interface"][2]
    ELSE << >>

\* the existing map overlaid with the desired one, every value coerced to str
CoercedOverlay ==
    [k \in (DOMAIN OldInterface) \cup (DOMAIN unit.new_interface) |->
        PyStr(IF k \in DOMAIN unit.new_interface THEN unit.new_interface[k]
              ELSE OldInterface[k])]

AllStrings(m) == \A k \in DOMAIN m : m[k][1] = "str"

MergeGeneralLaw ==
    /\ (unit.ret = << >>) <=> (CoercedOverlay = OldInterface)
    /\ unit.ret # << >> => unit.ret = CoercedOverlay
    /\ (OldInterface = << >> /\ unit.new_interface = [k \in {"a"} |-> IntV(1)])
           => unit.ret = [k \in {"a"} |-> StrV("1")]

\* C9 (as claimed): for every existing interface map, merging it with the
\* empty map or with itself returns the empty map; {} merged with {a:1} is
\* {a:"1"}; the merge is empty exactly when the coerced overlay equals the
\* existing map and is the coerced overlay otherwise.
C9_MergeLawAnyExisting ==
    unit.called
        => /\ unit.new_interface = << >> => unit.ret = << >>
           /\ unit.new_interface = OldInterface => unit.ret = << >>
           /\ MergeGeneralLaw

\* C9 (amended): the first two laws hold for every existing interface map
\* whose values are all strings; the rest as claimed.
C9_MergeLawStringExisting ==
    unit.called
        => /\ (AllStrings(OldInterface) /\ unit.new_interface = << >>) => unit.ret = << >>
           /\ (AllStrings(OldInterface) /\ unit.new_interface = OldInterface)
                  => unit.ret = << >>
           /\ MergeGeneralLaw

C9_Witness ==
    /\ unit.called
    /\ OldInterface # << >> /\ AllStrings(OldInterface)
    /\ unit.new_interface = [k \in {"a"} |-> IntV(1)]
    /\ OldInterface["a"] = StrV("1")
    /\ unit.ret = << >>

\* C10: an invocation issues at most one create/update/delete call, issues it
\* only from the dispatch that follows the lookup, and ends with it: a failed
\* call is not retried.
C10_SingleMutation ==
    /\ [](Len(calls) <= 1 /\ (calls # << >> => pc = "done"))
    /\ [][calls' # calls => (calls' = << >> \/ (pc = "dispatch" /\ calls = << >>))]_vars

C10_Witness ==
    /\ pc = "done" /\ Len(calls) = 1 /\ calls[1].reply # "ok"
    /\ calls[1].op = "create"

====
